---- MODULE Spec2Model ----
(***************************************************************************)
(* CloudForge (src/libs/CloudForge.js): the static-site build pipeline.    *)
(*                                                                         *)
(* Strings that the code takes apart (paths) are sequences of tokens: the  *)
(* separator "/", the dot "." and names that contain neither, so that      *)
(* path.normalize, path.join, String.split('/'), Array.pop/join and        *)
(* String.replace are computed as the code computes them.  Rendered text   *)
(* is a sequence of tokens as well.                                        *)
(***************************************************************************)
EXTENDS Naturals, Sequences, FiniteSets, TLC

\* ---------------------------------------------------------------- bounds
\* Depth of the source tree below the source root.
MaxDepth == 2
\* Number of build passes (calls of build()) one behaviour may start.
MaxPasses == 3

\* ------------------------------------------------------------ path helpers
SEP == "/"
DOT == "."

\* String.prototype.split('/')
RECURSIVE SplitAcc(_, _, _)
SplitAcc(s, cur, acc) ==
  IF s = <<>> THEN Append(acc, cur)
  ELSE IF Head(s) = SEP THEN SplitAcc(Tail(s), <<>>, Append(acc, cur))
  ELSE SplitAcc(Tail(s), Append(cur, Head(s)), acc)

split(s) == SplitAcc(s, <<>>, <<>>)

\* Array.prototype.join('/')
RECURSIVE joinSlash(_)
joinSlash(segs) ==
  IF segs = <<>> THEN <<>>
  ELSE IF Len(segs) = 1 THEN segs[1]
  ELSE segs[1] \o <<SEP>> \o joinSlash(Tail(segs))

\* Array.prototype.pop (the array that is left)
pop(segs) == IF segs = <<>> THEN <<>> ELSE SubSeq(segs, 1, Len(segs) - 1)

\* node's normalizeString: drops empty and "." segments, resolves "..".
RECURSIVE NormSegs(_, _, _)
NormSegs(segs, allowAboveRoot, acc) ==
  IF segs = <<>> THEN acc
  ELSE LET s == Head(segs)
           rest == Tail(segs)
       IN IF s = <<>> \/ s = <<DOT>> THEN NormSegs(rest, allowAboveRoot, acc)
          ELSE IF s = <<DOT, DOT>>
            THEN IF acc # <<>> /\ acc[Len(acc)] # <<DOT, DOT>>
                   THEN NormSegs(rest, allowAboveRoot, pop(acc))
                   ELSE IF allowAboveRoot
                          THEN NormSegs(rest, allowAboveRoot, Append(acc, s))
                          ELSE NormSegs(rest, allowAboveRoot, acc)
            ELSE NormSegs(rest, allowAboveRoot, Append(acc, s))

\* path.normalize (posix): a trailing separator is kept, "" becomes ".".
normalize(p) ==
  IF p = <<>> THEN <<DOT>>
  ELSE LET isAbsolute == Head(p) = SEP
           trailingSeparator == p[Len(p)] = SEP
           body == joinSlash(NormSegs(split(p), ~isAbsolute, <<>>))
       IN IF body = <<>>
            THEN IF isAbsolute THEN <<SEP>>
                 ELSE IF trailingSeparator THEN <<DOT, SEP>> ELSE <<DOT>>
            ELSE (IF isAbsolute THEN <<SEP>> ELSE <<>>) \o body
                 \o (IF trailingSeparator THEN <<SEP>> ELSE <<>>)

\* path.join of two arguments: the non-empty ones joined by "/", normalized.
pathJoin(a, b) ==
  IF a = <<>> THEN normalize(b)
  ELSE IF b = <<>> THEN normalize(a)
  ELSE normalize(a \o <<SEP>> \o b)

\* path.dirname of a normalized path without trailing separator.
dirname(p) ==
  LET segs == split(p)
  IN IF Len(segs) <= 1 THEN <<DOT>>
     ELSE IF pop(segs) = << <<>> >> THEN <<SEP>>
     ELSE joinSlash(pop(segs))

\* The position of the first occurrence of pat in s at or after i, or 0.
RECURSIVE IndexOf(_, _, _)
IndexOf(s, pat, i) ==
  IF i + Len(pat) - 1 > Len(s) THEN 0
  ELSE IF SubSeq(s, i, i + Len(pat) - 1) = pat THEN i
  ELSE IndexOf(s, pat, i + 1)

\* String.prototype.replace(pat, rep) with a string pattern: the FIRST
\* occurrence only, wherever it is.
replaceFirst(s, pat, rep) ==
  LET i == IndexOf(s, pat, 1)
  IN IF i = 0 THEN s
     ELSE SubSeq(s, 1, i - 1) \o rep \o SubSeq(s, i + Len(pat), Len(s))

\* Mutant of extname: from the first dot of the name to the next one.
RECURSIVE FirstDot(_, _)
FirstDot(s, i) == IF i > Len(s) THEN 0 ELSE IF s[i] = DOT THEN i ELSE FirstDot(s, i + 1)

extnameOfFirstDot(name) ==
  LET i == FirstDot(name, 1)
  IN IF i <= 1 \/ i = Len(name) THEN <<>> ELSE SubSeq(name, i, i + 1)

\* path.extname of a file name: from its last dot on.
RECURSIVE LastDot(_, _)
LastDot(s, i) == IF i = 0 THEN 0 ELSE IF s[i] = DOT THEN i ELSE LastDot(s, i - 1)

extname(name) ==
  LET i == LastDot(name, Len(name))
  IN IF i <= 1 THEN <<>> ELSE SubSeq(name, i, Len(name))

\* The paths p itself and everything below it.
IsUnder(p, dir) ==
  \/ p = dir
  \/ /\ Len(p) > Len(dir)
     /\ SubSeq(p, 1, Len(dir)) = dir
     /\ p[Len(dir) + 1] = SEP

\* ------------------------------------------------------------ source tree
\* Directories of the source tree, as lists of names below the source root:
\* a directory named "a" may have the subdirectories "a" and "b", a "b" is a leaf.
DirNames == <<"a", "b">>

Dirs ==
  { d \in UNION { [1..n -> {"a", "b"}] : n \in 0..MaxDepth } :
      \A i \in 1..(Len(d) - 1) : d[i] = "a" }

SubDirs(d) ==
  IF Len(d) < MaxDepth /\ (d = <<>> \/ d[Len(d)] = "a") THEN DirNames ELSE <<>>

IsPrefix(a, d) == Len(a) <= Len(d) /\ SubSeq(d, 1, Len(a)) = a

TemplateName == <<"template", DOT, "html", DOT, "dot">>
IndexName == <<"index", DOT, "html">>
MetadataName == <<"metadata", DOT, "json">>
HtmlExt == <<DOT, "html">>
DotExt == <<DOT, "dot">>
JsonExt == <<DOT, "json">>

\* The orders in which a directory lists its layout file (L), its content
\* file with its sidecar (C) and its subdirectories (D).
Orders == { <<"L", "C", "D">>, <<"C", "D", "L">>, <<"D", "C", "L">> }

\* Template sources: literal text, interpolations <{=it.key}> and component
\* calls <{=it.getComponent('path', object)}>; a call without the second
\* argument has the empty object (`object = object || {}`).
Lit(t) == [kind |-> "lit", v |-> t]
Slot(k) == [kind |-> "slot", v |-> k]
Component(path, object) == [kind |-> "component", v |-> path, object |-> object]

Label(d) == [i \in 1..Len(d) |-> Lit(d[i])]

\* fs.readFileSync of the template.html.dot of directory d.
LayoutSource(d) ==
  <<Lit("<layout")>> \o Label(d)
    \o <<Lit(">"), Slot("content"), Lit("|"), Slot("metadata"), Lit("|"),
         Slot("title"), Lit("</layout>")>>

\* fs.readFileSync of the index.html of directory d.
ContentSource(d) ==
  <<Lit("<page")>> \o Label(d)
    \o <<Lit(">"), Slot("title"), Component("c1", [k \in {} |-> <<>>]), Lit("</page>")>>

\* fs.readFileSync(path) of a component file: c1 calls c2 with an object
\* that has a getComponent key of its own, c2 calls c3 without an object.
ComponentSource(path) ==
  IF path = "c1"
    THEN <<Lit("<c1>"), Slot("title"), Component("c2", [from |-> <<"c1">>, getComponent |-> <<"mine">>]), Lit("</c1>")>>
  ELSE IF path = "c2"
    THEN <<Lit("<c2>"), Slot("from"), Component("c3", [k \in {} |-> <<>>]), Lit("</c2>")>>
  ELSE <<Lit("<c3>"), Slot("title"), Lit("</c3>")>>

\* The bytes of a file as they are on disk (what a plain copy writes).
RECURSIVE Raw(_)
Raw(src) ==
  IF src = <<>> THEN <<>>
  ELSE (IF Head(src).kind = "lit" THEN <<Head(src).v>>
        ELSE IF Head(src).kind = "slot" THEN <<"<{=it.", Head(src).v, "}>">>
        ELSE <<"<{=it.getComponent('", Head(src).v, "')}>">>) \o Raw(Tail(src))

\* Object.assign(target, source): the source's keys override the target's.
ObjectAssign(target, source) == source @@ target

EmptyObject == [k \in {} |-> <<>>]

\* The value a template sees for the loader function.
GetComponentValue == <<"[Function: getComponent]">>

\* Mutant of ComponentContext: the loader is left out of the context.
ComponentContextWithoutLoader(object) == object

\* getComponent: Object.assign(object, { getComponent })
ComponentContext(object) == ObjectAssign(object, [getComponent |-> GetComponentValue])

\* Mutant of CallerObjectAfter: the keys are assigned to a copy of the object.
CallerObjectUntouched(object) == object

\* getComponent: Object.assign writes into its target and returns it, so the
\* object the caller passed is the context after the call.
CallerObjectAfter(object) == ComponentContext(object)

\* it.getComponent is the loader function in the context ctx.
HasLoader(ctx) == "getComponent" \in DOMAIN ctx /\ ctx["getComponent"] = GetComponentValue

\* dot.template(source)(context): literals verbatim, an interpolation is the
\* context's value under the key, "undefined" when the key is missing, a
\* component call is what getComponent returns.
RECURSIVE Render(_, _)
Render(src, ctx) ==
  IF src = <<>> THEN <<>>
  ELSE (IF Head(src).kind = "lit" THEN <<Head(src).v>>
        ELSE IF Head(src).kind = "component"
          THEN IF HasLoader(ctx)
                 THEN Render(ComponentSource(Head(src).v), ComponentContext(Head(src).object))
                 ELSE <<"TypeError">>
        ELSE IF Head(src).v \in DOMAIN ctx THEN ctx[Head(src).v]
        ELSE <<"undefined">>) \o Render(Tail(src), ctx)

\* getComponent(path, object)
GetComponent(path, object) == Render(ComponentSource(path), ComponentContext(object))

\* dot.template(source)(context) throws: it.getComponent is called in a
\* context where it is not the loader, at any depth of nesting.
RECURSIVE Throws(_, _)
Throws(src, ctx) ==
  IF src = <<>> THEN FALSE
  ELSE \/ /\ Head(src).kind = "component"
          /\ \/ ~HasLoader(ctx)
             \/ Throws(ComponentSource(Head(src).v), ComponentContext(Head(src).object))
       \/ Throws(Tail(src), ctx)

\* The contexts getComponent builds while source is rendered, with the
\* component and the depth of nesting of each.
RECURSIVE ComponentCalls(_, _, _)
ComponentCalls(src, ctx, depth) ==
  IF src = <<>> THEN {}
  ELSE (IF Head(src).kind = "component" /\ HasLoader(ctx)
          THEN { [ path |-> Head(src).v, depth |-> depth,
                   context |-> ComponentContext(Head(src).object),
                   object |-> Head(src).object,
                   objectAfter |-> CallerObjectAfter(Head(src).object),
                   output |-> GetComponent(Head(src).v, Head(src).object) ] }
               \cup ComponentCalls(ComponentSource(Head(src).v),
                                   ComponentContext(Head(src).object), depth + 1)
          ELSE {})
       \cup ComponentCalls(Tail(src), ctx, depth)

\* ------------------------------------------------------------ configuration
\* The forms in which html.sourceDirectory may be configured.
SourceForms ==
  { <<"src">>, <<DOT, SEP, "src">>, <<"src", SEP>>, <<DOT>>, <<"src", SEP, "html">> }

HtmlBuildDirectory == <<SEP, "out">>
SassSourceDirectory == <<"scss">>
SassBuildDirectory == <<SEP, "out", SEP, "css">>

\* html.templateDependencies
DependencyChoices ==
  { EmptyObject, [title |-> <<"T">>], [content |-> <<"X">>] }

\* The dependencies option: [source, destination, replacements] each.
Dependencies ==
  << [ src |-> <<"vendor">>, dst |-> <<SEP, "out", SEP, "js">>,
       replacements |-> << <<"TOKEN", "value">> >> ],
     [ src |-> <<"images">>, dst |-> <<SEP, "out", SEP, "images">>,
       replacements |-> <<>> ] >>

\* The constructor options: html, sass, dependencies and server may be left
\* out; html: says whether the html section is there.
OptionsOf(h, f, t, e, s, m, dset, deps, ignore, srv) ==
  [ html |-> h, sourceDirectory |-> f, buildDirectory |-> HtmlBuildDirectory,
    templateDependencies |-> t, copyFilesWithExtensions |-> e,
    sass |-> s, includeSourceMap |-> m,
    dependenciesSet |-> dset, dependencies |-> deps,
    cleanIgnoreDirectories |-> ignore, server |-> srv, aws |-> {},
    sassSourceDirectory |-> SassSourceDirectory ]

HtmlOptions(forms, dependencyChoices, extensionChoices, htmlChoices) ==
  { OptionsOf(h, f, t, e, TRUE, FALSE, TRUE, Dependencies, {}, FALSE) :
      h \in htmlChoices, f \in forms, t \in dependencyChoices, e \in extensionChoices }

\* The value a promise is rejected with: a string, or an Error with a message.
NoError == [name |-> "none", message |-> <<>>]

Rejection(name, message) == [name |-> name, message |-> message]

\* deploy(): no createInvalidation call has been made.
NoInvalidation == [state |-> "none", paths |-> <<>>]

\* Promise states; a settled promise ignores later resolve()/reject() calls.
Settle(state, outcome) == IF state = "pending" THEN outcome ELSE state

VARIABLES
  options,        \* the constructor options (Object.assign(this, options))
  layouts,        \* source: the directories that contain a template.html.dot
  order,          \* source: the order in which directories list their children
  metadata,       \* source: per directory "absent", "valid" or "invalid" metadata.json
  files,          \* build output: path -> contents
  dirs,           \* build output: the directories that exist
  pc,             \* per pass: where the pass is
  call,           \* per pass: the public method that started it
  started,        \* per pass: the stages started so far, in order
  running,        \* the pass whose synchronous code is executing (0: none)
  templates,      \* per pass: the `templates` object of its compileHtml call
  stack,          \* the call stack of recurse() of the running pass
  compiled,       \* per pass: the pages composed so far, in order
  promise,        \* per pass: the promises of build() and of its stages
  pendingRimraf,  \* per pass: the rimraf calls not yet called back
  pendingNcp,     \* per pass: the ncp calls not yet called back
  watching,       \* develop(): the watcher is registered and the server started
  returned,       \* per pass: what the public method handed to its caller
  reason,         \* per pass: the value its promise was rejected with
  upload,         \* deploy(): the state of the S3 upload
  invalidation,   \* deploy(): the state of the CloudFront invalidation
  deployPromise,  \* deploy(): the promise created in the .then callback of build()
  firstOutput     \* the build output the first of two compileHtml calls left

vars ==
  << options, layouts, order, metadata, files, dirs, pc, call, started, running,
     templates, stack, compiled, promise, pendingRimraf,
     pendingNcp, watching, returned, reason, upload, invalidation, deployPromise,
     firstOutput >>

deployVars == << upload, invalidation, deployPromise >>

Passes == 1..MaxPasses

NoTemplate == <<>>

\* ------------------------------------------------------------ directoryTree
\* directory-tree: the root's path is the argument as given, a child's path
\* is path.join(parent.path, name).
RECURSIVE NodePath(_, _)
NodePath(src, d) ==
  IF d = <<>> THEN src
  ELSE pathJoin(NodePath(src, pop(d)), <<d[Len(d)]>>)

FileNode(src, d, name) ==
  [ name |-> name, path |-> pathJoin(NodePath(src, d), name), type |-> "file",
    extension |-> extname(name), id |-> d ]

DirNode(src, d) ==
  [ name |-> <<d[Len(d)]>>, path |-> NodePath(src, d), type |-> "directory",
    extension |-> <<>>, id |-> d ]

KindChildren(src, d, kind) ==
  IF kind = "L"
    THEN IF d \in layouts THEN <<FileNode(src, d, TemplateName)>> ELSE <<>>
  ELSE IF kind = "C"
    THEN <<FileNode(src, d, IndexName)>>
         \o (IF metadata[d] # "absent" THEN <<FileNode(src, d, MetadataName)>> ELSE <<>>)
  ELSE [i \in 1..Len(SubDirs(d)) |-> DirNode(src, Append(d, SubDirs(d)[i]))]

\* Mutant of Children: a directory lists its children in the opposite order
\* once the first call on the instance has ended.
ChildrenRelisted(d) ==
  LET src == options.sourceDirectory
      o == IF pc[1] \in {"done", "failed"} THEN <<order[3], order[2], order[1]>> ELSE order
  IN KindChildren(src, d, o[1]) \o KindChildren(src, d, o[2]) \o KindChildren(src, d, o[3])

\* directory.children of the node of directory d.
Children(d) ==
  LET src == options.sourceDirectory
  IN KindChildren(src, d, order[1]) \o KindChildren(src, d, order[2])
       \o KindChildren(src, d, order[3])

\* fs.readFileSync(child.path) as a template source.
FileSource(child) ==
  IF child.name = TemplateName THEN LayoutSource(child.id)
  ELSE IF child.name = IndexName THEN ContentSource(child.id)
  ELSE <<Lit("{meta")>> \o Label(child.id) \o <<Lit("}")>>

\* Mutant of MetadataValue: a directory without metadata.json takes the
\* record of the nearest directory above it that has one.
RECURSIVE MetadataValueInherited(_)
MetadataValueInherited(d) ==
  IF metadata[d] # "absent" THEN <<"{meta">> \o d \o <<"}">>
  ELSE IF d = <<>> THEN <<"{}">>
  ELSE MetadataValueInherited(pop(d))

\* JSON.parse of a valid metadata.json of directory d, as templates see it.
MetadataValue(d) ==
  IF metadata[d] = "absent" THEN <<"{}">>
  ELSE <<"{meta">> \o d \o <<"}">>

\* ------------------------------------------------------------ compileHtml
\* Mutant of NewTemplates: one registry object is kept on the instance and
\* handed from call to call.
KeptTemplates(tpls, p) == IF p > 1 THEN tpls[p - 1] ELSE EmptyObject

\* `let templates = {}`: every call of compileHtml starts with its own empty
\* registry, whatever the registries tpls of the other calls hold.
NewTemplates(tpls, p) == EmptyObject

\* recurse, first loop: the directory's own template.html.dot, wherever it
\* is listed among the children, is compiled and registered under the
\* directory's normalized path.
RECURSIVE GetTemplateFrom(_, _, _, _)
GetTemplateFrom(tpls, directoryPath, children, i) ==
  IF i > Len(children) THEN tpls
  ELSE IF children[i].name = TemplateName
    THEN GetTemplateFrom(ObjectAssign(tpls, directoryPath :> FileSource(children[i])),
                         directoryPath, children, i + 1)
    ELSE GetTemplateFrom(tpls, directoryPath, children, i + 1)

\* Mutant of GetTemplate: the layout file is only seen when it is listed first.
GetTemplateIfListedFirst(tpls, directoryPath, children) ==
  IF children # <<>> /\ children[1].name = TemplateName
    THEN ObjectAssign(tpls, directoryPath :> FileSource(children[1]))
    ELSE tpls

\* Mutant of GetTemplate: whatever is listed first is registered as the layout.
GetTemplateOfFirstChild(tpls, directoryPath, children) ==
  IF children # <<>>
    THEN ObjectAssign(tpls, directoryPath :> FileSource(children[1]))
    ELSE tpls

GetTemplate(tpls, directoryPath, children) ==
  GetTemplateFrom(tpls, directoryPath, children, 1)

\* Mutant of SelectParentTemplate: two segments are dropped per step.
RECURSIVE SelectParentTemplateSkipping(_, _)
SelectParentTemplateSkipping(tpls, parentTemplateKey) ==
  IF parentTemplateKey = <<>> THEN NoTemplate
  ELSE IF parentTemplateKey \in DOMAIN tpls THEN tpls[parentTemplateKey]
  ELSE SelectParentTemplateSkipping(tpls, joinSlash(pop(pop(split(parentTemplateKey)))))

\* recurse, the while loop: look the key up, then drop its last segment,
\* until a template is found or the key is the empty string.
RECURSIVE SelectParentTemplate(_, _)
SelectParentTemplate(tpls, parentTemplateKey) ==
  IF parentTemplateKey = <<>> THEN NoTemplate
  ELSE IF parentTemplateKey \in DOMAIN tpls THEN tpls[parentTemplateKey]
  ELSE SelectParentTemplate(tpls, joinSlash(pop(split(parentTemplateKey))))

\* recurse, the while loop: the number of times its body runs, one lookup
\* of templates[parentTemplateKey] each time.
RECURSIVE SelectionSteps(_, _)
SelectionSteps(tpls, parentTemplateKey) ==
  IF parentTemplateKey = <<>> THEN 0
  ELSE IF parentTemplateKey \in DOMAIN tpls THEN 1
  ELSE 1 + SelectionSteps(tpls, joinSlash(pop(split(parentTemplateKey))))

\* recurse, second loop: where the output of a child is written.
WritePath(child) ==
  LET sourceDirectory == normalize(options.sourceDirectory)
  IN pathJoin(options.buildDirectory, replaceFirst(child.path, sourceDirectory, <<>>))

\* The context of the content template.
TemplateDependencies(d) ==
  ObjectAssign([metadata |-> MetadataValue(d), getComponent |-> GetComponentValue],
               options.templateDependencies)

\* The context of the layout.
LayoutContext(contentOutput, templateDependencies) ==
  ObjectAssign([content |-> contentOutput], templateDependencies)

\* fs.readFileSync of a metadata.json that is not valid JSON.
InvalidMetadataText == <<"{", "title", ":">>

\* The SyntaxError JSON.parse throws on the metadata.json of directory d: its
\* message is made of the text that was parsed, the path of the file is no
\* argument of JSON.parse.
JsonParseError(d) ==
  Rejection("SyntaxError", <<"Unexpected end of JSON input">> \o InvalidMetadataText)

\* mkdirp.sync(dir): dir and the ancestors of dir.
RECURSIVE Mkdirp(_)
Mkdirp(dir) ==
  IF dir = <<SEP>> \/ dir = <<DOT>> \/ dir = <<>> THEN {}
  ELSE {dir} \cup Mkdirp(dirname(dir))

\* Mutant of WriteFile: the write leaves no other file behind.
WriteFileAlone(fs, path, data) == (path :> data)

\* fs.writeFileSync(path, data): the file at path holds data, every other
\* file is as it was.
WriteFile(fs, path, data) == (path :> data) @@ fs

\* recurse, second loop, one file child: the page of an .html file, then the
\* plain copy of a file with a listed extension.  threw: an exception left
\* the loop (JSON.parse of the sidecar, or the call of a missing layout).
CompileChild(child, d, parentTemplate, fs, ds) ==
  LET writePath == WritePath(child)
      isHtml == child.extension = HtmlExt
      badMetadata == isHtml /\ metadata[d] = "invalid"
      templateThrows == isHtml /\ ~badMetadata
                          /\ Throws(FileSource(child), TemplateDependencies(d))
      noLayout == isHtml /\ ~badMetadata /\ parentTemplate = NoTemplate
      templateDependencies == TemplateDependencies(d)
      contentOutput == Render(FileSource(child), templateDependencies)
      context == LayoutContext(contentOutput, templateDependencies)
      output == Render(parentTemplate, context)
      page == [ dir |-> d, path |-> child.path, writePath |-> writePath,
                layout |-> parentTemplate, content |-> contentOutput,
                context |-> context, output |-> output,
                contentContext |-> templateDependencies,
                components |-> ComponentCalls(FileSource(child), templateDependencies, 1) ]
      ds1 == IF isHtml /\ ~badMetadata THEN ds \cup Mkdirp(dirname(writePath)) ELSE ds
      fs1 == IF isHtml THEN WriteFile(fs, writePath, output) ELSE fs
      copied == child.extension \in options.copyFilesWithExtensions
  IN IF badMetadata
       THEN [ threw |-> TRUE, files |-> fs, dirs |-> ds, pages |-> <<>>,
              error |-> JsonParseError(d) ]
     ELSE IF templateThrows
       THEN [ threw |-> TRUE, files |-> fs, dirs |-> ds1, pages |-> <<>>,
              error |-> Rejection("TypeError", <<"it.getComponent is not a function">>) ]
     ELSE IF noLayout
       THEN [ threw |-> TRUE, files |-> fs, dirs |-> ds1, pages |-> <<>>,
              error |-> Rejection("TypeError", <<"parentTemplate is not a function">>) ]
     ELSE [ threw |-> FALSE, error |-> NoError,
            files |-> IF copied THEN WriteFile(fs1, writePath, Raw(FileSource(child)))
                      ELSE fs1,
            dirs |-> IF copied THEN ds1 \cup Mkdirp(dirname(writePath)) ELSE ds1,
            pages |-> IF isHtml THEN <<page>> ELSE <<>> ]

\* Mutant of ExecutorOutcome: resolve() is called before the try block.
ExecutorOutcomeResolvedFirst(threw) ==
  Settle(Settle("pending", "fulfilled"), IF threw THEN "rejected" ELSE "fulfilled")

\* The executor of the promise compileHtml returns: reject(error) in the
\* catch block, then resolve() in every case.
ExecutorOutcome(threw) ==
  Settle(IF threw THEN Settle("pending", "rejected") ELSE "pending", "fulfilled")

\* Mutant of Then: the next stage runs whatever the outcome of the stage before.
ThenAlways(outcome, nextStage) == nextStage

\* build(): a .then callback runs only when the stage before it fulfilled.
Then(outcome, nextStage) == IF outcome = "fulfilled" THEN nextStage ELSE "failed"

InBuild(p) == call[p] \in {"build", "develop", "watch", "deploy"}

Stages == {"clean", "compileHtml", "compileSass", "copyDependencies"}

NoPromises ==
  [ build |-> "none", clean |-> "none", compileHtml |-> "none",
    compileSass |-> "none", copyDependencies |-> "none" ]

\* The promise of a stage settles.  Inside build() the next .then callback
\* runs in the same turn, or build() rejects, or (after the last stage)
\* fulfils; a stage called on its own just ends.
StageSettled(p, stage, outcome, nextStage) ==
  LET next == IF InBuild(p) THEN Then(outcome, nextStage)
              ELSE IF outcome = "fulfilled" THEN "done" ELSE "failed"
  IN /\ pc' = [pc EXCEPT ![p] = next]
     /\ running' = IF next \in {"done", "failed"} THEN 0 ELSE p
     /\ promise' = [promise EXCEPT ![p] =
                      [@ EXCEPT ![stage] = outcome,
                                !.build = IF ~InBuild(p) THEN @
                                          ELSE IF next = "failed" THEN "rejected"
                                          ELSE IF next = "done" THEN "fulfilled"
                                          ELSE @]]

HtmlSettled(p, outcome) == StageSettled(p, "compileHtml", outcome, "compileSass")

Frame(d) == [dir |-> d, phase |-> "register", idx |-> 1, parentTemplate |-> NoTemplate]

Top == stack[Len(stack)]

DirectoryPath(d) == normalize(NodePath(options.sourceDirectory, d))

\* compileHtml(), up to the call of recurse on the root node.
CompileHtmlBegin(p) ==
  /\ running = p
  /\ pc[p] = "compileHtml"
  /\ started' = [started EXCEPT ![p] = Append(@, "compileHtml")]
  /\ IF ~options.html
       THEN /\ HtmlSettled(p, "rejected")
            /\ reason' = [reason EXCEPT ![p] =
                 Rejection("string", <<"Could not compile HTML! The html property has not been set!">>)]
            /\ UNCHANGED <<templates, stack>>
       ELSE /\ templates' = [templates EXCEPT ![p] = NewTemplates(templates, p)]
            /\ stack' = <<Frame(<<>>)>>
            /\ pc' = [pc EXCEPT ![p] = "traverse"]
            /\ promise' = [promise EXCEPT ![p].compileHtml = "pending"]
            /\ UNCHANGED <<running, reason>>
  /\ UNCHANGED << deployVars, firstOutput, returned, options, layouts, order, metadata, files, dirs, call, compiled,
                  pendingRimraf, pendingNcp, watching >>

\* recurse(directory): the first forEach.
RegisterTemplate(p) ==
  /\ running = p
  /\ pc[p] = "traverse"
  /\ stack # <<>>
  /\ Top.phase = "register"
  /\ templates' = [templates EXCEPT ![p] =
                     GetTemplate(@, DirectoryPath(Top.dir), Children(Top.dir))]
  /\ stack' = [stack EXCEPT ![Len(stack)].phase = "select"]
  /\ UNCHANGED << deployVars, firstOutput, returned, reason, options, layouts, order, metadata, files, dirs, pc, call, started,
                  running, compiled, promise, pendingRimraf,
                  pendingNcp, watching >>

\* recurse(directory): the selection of the parent template.
SelectTemplate(p) ==
  /\ running = p
  /\ pc[p] = "traverse"
  /\ stack # <<>>
  /\ Top.phase = "select"
  /\ stack' = [stack EXCEPT ![Len(stack)] =
                 [@ EXCEPT !.phase = "children",
                           !.parentTemplate =
                             SelectParentTemplate(templates[p], DirectoryPath(Top.dir))]]
  /\ UNCHANGED << deployVars, firstOutput, returned, reason, options, layouts, order, metadata, files, dirs, pc, call, started,
                  running, templates, compiled, promise,
                  pendingRimraf, pendingNcp, watching >>

\* recurse(directory): the second forEach at a file child.
CompileFile(p) ==
  /\ running = p
  /\ pc[p] = "traverse"
  /\ stack # <<>>
  /\ Top.phase = "children"
  /\ Top.idx <= Len(Children(Top.dir))
  /\ Children(Top.dir)[Top.idx].type # "directory"
  /\ LET r == CompileChild(Children(Top.dir)[Top.idx], Top.dir, Top.parentTemplate,
                           files, dirs)
     IN /\ files' = r.files
        /\ dirs' = r.dirs
        /\ compiled' = [compiled EXCEPT ![p] = @ \o r.pages]
        /\ IF r.threw
             THEN /\ stack' = <<>>
                  /\ HtmlSettled(p, ExecutorOutcome(TRUE))
                  /\ reason' = [reason EXCEPT ![p] = r.error]
             ELSE /\ stack' = [stack EXCEPT ![Len(stack)].idx = @ + 1]
                  /\ UNCHANGED <<pc, running, promise, reason>>
  /\ UNCHANGED << deployVars, firstOutput, returned, options, layouts, order, metadata, call, started, templates,
                  pendingRimraf, pendingNcp, watching >>

\* recurse(directory): the second forEach at a directory child: recurse(child).
RecurseInto(p) ==
  /\ running = p
  /\ pc[p] = "traverse"
  /\ stack # <<>>
  /\ Top.phase = "children"
  /\ Top.idx <= Len(Children(Top.dir))
  /\ Children(Top.dir)[Top.idx].type = "directory"
  /\ stack' = Append([stack EXCEPT ![Len(stack)].idx = @ + 1],
                     Frame(Children(Top.dir)[Top.idx].id))
  /\ UNCHANGED << deployVars, firstOutput, returned, reason, options, layouts, order, metadata, files, dirs, pc, call, started,
                  running, templates, compiled, promise,
                  pendingRimraf, pendingNcp, watching >>

\* recurse(directory) returns; the return of the root call ends the executor.
ReturnFrom(p) ==
  /\ running = p
  /\ pc[p] = "traverse"
  /\ stack # <<>>
  /\ Top.phase = "children"
  /\ Top.idx > Len(Children(Top.dir))
  /\ stack' = pop(stack)
  /\ IF Len(stack) = 1
       THEN HtmlSettled(p, ExecutorOutcome(FALSE))
       ELSE UNCHANGED <<pc, running, promise>>
  /\ UNCHANGED << deployVars, firstOutput, returned, reason, options, layouts, order, metadata, files, dirs, call, started,
                  templates, compiled, pendingRimraf, pendingNcp, watching >>

\* A caller invokes compileHtml() on the instance.
CallCompileHtml ==
  /\ running = 0
  /\ pc[1] = "idle"
  /\ pc' = [pc EXCEPT ![1] = "compileHtml"]
  /\ call' = [call EXCEPT ![1] = "compileHtml"]
  /\ running' = 1
  /\ returned' = [returned EXCEPT ![1] = "promise"]
  /\ UNCHANGED << deployVars, firstOutput, reason, options, layouts, order, metadata, files, dirs, started, templates,
                  stack, compiled, promise, pendingRimraf,
                  pendingNcp, watching >>

\* ------------------------------------------------------------ initial states
InitWith(optionChoices, metadataChoices, layoutChoices, orderChoices, initialFiles) ==
  /\ options \in optionChoices
  /\ layouts \in layoutChoices
  /\ order \in orderChoices
  /\ metadata \in metadataChoices
  /\ files = initialFiles
  /\ dirs = UNION { Mkdirp(dirname(f)) : f \in DOMAIN initialFiles }
  /\ pc = [p \in Passes |-> "idle"]
  /\ call = [p \in Passes |-> "none"]
  /\ started = [p \in Passes |-> <<>>]
  /\ running = 0
  /\ templates = [p \in Passes |-> EmptyObject]
  /\ stack = <<>>
  /\ compiled = [p \in Passes |-> <<>>]
  /\ promise = [p \in Passes |-> NoPromises]
  /\ pendingRimraf = [p \in Passes |-> {}]
  /\ pendingNcp = [p \in Passes |-> {}]
  /\ watching = FALSE
  /\ returned = [p \in Passes |-> "none"]
  /\ reason = [p \in Passes |-> NoError]
  /\ upload = "none"
  /\ invalidation = NoInvalidation
  /\ deployPromise = "none"
  /\ firstOutput = EmptyObject

NoMetadata == [d \in Dirs |-> "absent"]

\* One call of compileHtml() on a fresh build directory: every tree shape in
\* every listing order under every form of the source path, and every
\* combination of the other html options on the plain form.
Init ==
  \/ InitWith(HtmlOptions(SourceForms, {EmptyObject}, {{}}, {TRUE}),
              {NoMetadata}, SUBSET Dirs, Orders, EmptyObject)
  \/ InitWith(HtmlOptions({<<"src">>}, DependencyChoices,
                          {{}, {HtmlExt}, {DotExt, JsonExt}}, BOOLEAN),
              {NoMetadata, [NoMetadata EXCEPT ![<<"a">>] = "valid"],
               [NoMetadata EXCEPT ![<<"b">>] = "invalid"]},
              {{}, {<<>>}, {<<"a">>}, {<<>>, <<"a">>}}, {<<"D", "C", "L">>}, EmptyObject)

Next ==
  \/ CallCompileHtml
  \/ \E p \in Passes :
       \/ CompileHtmlBegin(p)
       \/ RegisterTemplate(p)
       \/ SelectTemplate(p)
       \/ CompileFile(p)
       \/ RecurseInto(p)
       \/ ReturnFrom(p)

Spec == Init /\ [][Next]_vars

\* ------------------------------------------------------------ clean
Range(seq) == { seq[i] : i \in 1..Len(seq) }

\* _getDirectories(type): the html, the sass and the dependencies directories
\* of the sections that are configured.
GetDirectories(type) ==
  (IF options.html
     THEN <<IF type = "build" THEN options.buildDirectory ELSE options.sourceDirectory>>
     ELSE <<>>)
  \o (IF options.sass
        THEN <<IF type = "build" THEN SassBuildDirectory ELSE options.sassSourceDirectory>>
        ELSE <<>>)
  \o (IF options.dependenciesSet
        THEN [i \in 1..Len(options.dependencies) |->
                IF type = "build" THEN options.dependencies[i].dst
                ELSE options.dependencies[i].src]
        ELSE <<>>)

\* clean(): the directories rimraf is called on.
CleanTargets ==
  { d \in Range(GetDirectories("build")) : d \notin options.cleanIgnoreDirectories }

\* Mutant of PromiseAll: the promises are not awaited.
PromiseAllUnawaited(pending) == TRUE

\* Promise.all(promises) fulfils when none of the promises is pending any more.
PromiseAll(pending) == pending = {}

\* Mutant of Rimraf: the files stay.
RimrafLeavesFiles(fs, directory) == fs

\* rimraf(directory): the directory and everything below it is gone.
Rimraf(fs, directory) ==
  [f \in { g \in DOMAIN fs : ~IsUnder(g, directory) } |-> fs[f]]

\* What the public method hands to its caller: build() returns its promise
\* chain; deploy() and develop() call this.build().then(...) without
\* returning it.
ReturnedBy(how) == IF how \in {"deploy", "develop"} THEN "undefined" ELSE "promise"

\* build(): clean() is called; compileHtml follows in the same turn when
\* there is nothing to delete.
BuildStarts(p, how) ==
  /\ call' = [call EXCEPT ![p] = how]
  /\ returned' = [returned EXCEPT ![p] = ReturnedBy(how)]
  /\ started' = [started EXCEPT ![p] = <<"clean">>]
  /\ pendingRimraf' = [pendingRimraf EXCEPT ![p] = CleanTargets]
  /\ IF PromiseAll(CleanTargets)
       THEN /\ pc' = [pc EXCEPT ![p] = Then("fulfilled", "compileHtml")]
            /\ running' = p
            /\ promise' = [promise EXCEPT ![p] =
                             [@ EXCEPT !.build = "pending", !.clean = "fulfilled"]]
       ELSE /\ pc' = [pc EXCEPT ![p] = "clean"]
            /\ running' = 0
            /\ promise' = [promise EXCEPT ![p] =
                             [@ EXCEPT !.build = "pending", !.clean = "pending"]]

\* A caller invokes build() on the instance.
CallBuild ==
  /\ running = 0
  /\ pc[1] = "idle"
  /\ BuildStarts(1, "build")
  /\ UNCHANGED << deployVars, firstOutput, reason, options, layouts, order, metadata, files, dirs, templates, stack,
                  compiled, pendingNcp, watching >>

\* The callback of one rimraf without error; the last one of a clean() that
\* has not failed lets build() go on with compileHtml.
RimrafDone(p, directory) ==
  /\ running = 0
  /\ directory \in pendingRimraf[p]
  /\ files' = Rimraf(files, directory)
  /\ dirs' = { d \in dirs : ~IsUnder(d, directory) }
  /\ pendingRimraf' = [pendingRimraf EXCEPT ![p] = @ \ {directory}]
  /\ IF pc[p] = "clean" /\ PromiseAll(pendingRimraf[p] \ {directory})
       THEN StageSettled(p, "clean", "fulfilled", "compileHtml")
       ELSE UNCHANGED <<pc, running, promise>>
  /\ UNCHANGED << deployVars, firstOutput, returned, reason, options, layouts, order, metadata, call, started, templates, stack,
                  compiled, pendingNcp, watching >>

\* The callback of one rimraf with an error: Promise.all rejects at once.
RimrafFail(p, directory) ==
  /\ running = 0
  /\ directory \in pendingRimraf[p]
  /\ pendingRimraf' = [pendingRimraf EXCEPT ![p] = @ \ {directory}]
  /\ IF pc[p] = "clean"
       THEN /\ StageSettled(p, "clean", "rejected", "compileHtml")
            /\ reason' = [reason EXCEPT ![p] = Rejection("Error", <<"rimraf">>)]
       ELSE UNCHANGED <<pc, running, promise, reason>>
  /\ UNCHANGED << deployVars, firstOutput, returned, options, layouts, order, metadata, files, dirs, call, started,
                  templates, stack, compiled, pendingNcp, watching >>

\* A caller invokes clean() on the instance.
CallClean ==
  /\ running = 0
  /\ pc[1] = "idle"
  /\ call' = [call EXCEPT ![1] = "clean"]
  /\ returned' = [returned EXCEPT ![1] = "promise"]
  /\ started' = [started EXCEPT ![1] = <<"clean">>]
  /\ pendingRimraf' = [pendingRimraf EXCEPT ![1] = CleanTargets]
  /\ IF PromiseAll(CleanTargets)
       THEN /\ pc' = [pc EXCEPT ![1] = "done"]
            /\ promise' = [promise EXCEPT ![1].clean = "fulfilled"]
       ELSE /\ pc' = [pc EXCEPT ![1] = "clean"]
            /\ promise' = [promise EXCEPT ![1].clean = "pending"]
  /\ UNCHANGED << deployVars, firstOutput, reason, options, layouts, order, metadata,
                  files, dirs, running, templates, stack, compiled, pendingNcp,
                  watching >>

\* ------------------------------------------------------------ compileSass
SassNode(rel) ==
  [ name |-> split(rel)[Len(split(rel))],
    path |-> pathJoin(options.sassSourceDirectory, rel),
    extension |-> extname(split(rel)[Len(split(rel))]) ]

\* The files of the sass source tree in the order recurse meets them.
SassFiles ==
  << SassNode(<<"main", DOT, "scss">>),
     SassNode(<<"_", "util", DOT, "scss">>),
     SassNode(<<"dark", SEP, "night", DOT, "scss">>),
     SassNode(<<"theme", DOT, "sass">>),
     SassNode(<<"notes", DOT, "txt">>) >>

\* child.name.charAt(0) !== '_' && extension is .sass or .scss
IsSassEntry(child) ==
  /\ child.name[1] # "_"
  /\ child.extension \in { <<DOT, "sass">>, <<DOT, "scss">> }

\* A name without its last character.
DropLastChar(name) ==
  IF name = "main" THEN "mai"
  ELSE IF name = "night" THEN "nigh"
  ELSE IF name = "theme" THEN "them"
  ELSE IF name = "util" THEN "uti"
  ELSE "note"

\* String.prototype.slice(0, -5) of a path that ends in sass or scss: the
\* dot and the four characters after it, or, when no dot is left before
\* them, the four characters and the last character of the name before them.
SliceOffFive(p) ==
  IF p[Len(p) - 1] = DOT THEN SubSeq(p, 1, Len(p) - 2)
  ELSE SubSeq(p, 1, Len(p) - 2) \o <<DropLastChar(p[Len(p) - 1])>>

\* path.join(buildDirectory, child.path.replace(sourceDirectory, '')).slice(0, -5) + '.css'
SassWritePath(child) ==
  LET joined == pathJoin(SassBuildDirectory,
                         replaceFirst(child.path, normalize(options.sassSourceDirectory), <<>>))
  IN SliceOffFive(joined) \o <<DOT, "css">>

\* recurse of compileSass from the i-th file on; broken is the set of files
\* sass.renderSync throws on.
RECURSIVE SassLoop(_, _, _, _)
SassLoop(i, broken, fs, ds) ==
  IF i > Len(SassFiles) THEN [threw |-> FALSE, files |-> fs, dirs |-> ds]
  ELSE LET child == SassFiles[i]
           writePath == SassWritePath(child)
           css == <<"css">> \o child.name
           fs1 == WriteFile(fs, writePath, css)
           fs2 == IF options.includeSourceMap
                    THEN WriteFile(fs1, writePath \o <<DOT, "map">>, <<"map">> \o child.name)
                    ELSE fs1
       IN IF ~IsSassEntry(child) THEN SassLoop(i + 1, broken, fs, ds)
          ELSE IF i \in broken THEN [threw |-> TRUE, files |-> fs, dirs |-> ds]
          ELSE SassLoop(i + 1, broken, fs2, ds \cup Mkdirp(dirname(writePath)))

\* compileSass() as a stage of build(), in one turn.
CompileSass(p) ==
  /\ running = p
  /\ pc[p] = "compileSass"
  /\ started' = [started EXCEPT ![p] = Append(@, "compileSass")]
  /\ \E broken \in { {}, {1}, {3} } :
       LET r == IF options.sass THEN SassLoop(1, broken, files, dirs)
                ELSE [threw |-> TRUE, files |-> files, dirs |-> dirs]
       IN /\ files' = r.files
          /\ dirs' = r.dirs
          /\ StageSettled(p, "compileSass", ExecutorOutcome(r.threw), "copyDependencies")
          /\ reason' = [reason EXCEPT ![p] =
               IF ~options.sass
                 THEN Rejection("string", <<"Could not compile Sass! The sass property has not been set!">>)
               ELSE IF r.threw THEN Rejection("Error", <<"sass">>)
               ELSE @]
  /\ UNCHANGED << deployVars, firstOutput, returned, options, layouts, order, metadata, call, templates, stack, compiled,
                  pendingRimraf, pendingNcp, watching >>

\* ------------------------------------------------------------ copyDependencies
\* The file each dependency source directory holds.
LibName == <<"lib", DOT, "js">>
LibSource == <<"var", "TOKEN", "=", "TOKEN">>

\* replace({regex, replacement}): every occurrence in a file.
RECURSIVE ReplaceAll(_, _, _)
ReplaceAll(text, regex, replacement) ==
  IF text = <<>> THEN <<>>
  ELSE <<IF Head(text) = regex THEN replacement ELSE Head(text)>>
       \o ReplaceAll(Tail(text), regex, replacement)

RECURSIVE ApplyReplacements(_, _, _)
ApplyReplacements(text, replacements, i) ==
  IF i > Len(replacements) THEN text
  ELSE ApplyReplacements(ReplaceAll(text, replacements[i][1], replacements[i][2]),
                         replacements, i + 1)

\* The callback of ncp(source, destination) without error: the copy is
\* there, then every replacement is applied to every file below destination.
NcpThen(fs, instructions) ==
  LET copied == WriteFile(fs, pathJoin(instructions.dst, LibName), LibSource)
  IN [f \in DOMAIN copied |->
        IF IsUnder(f, instructions.dst)
          THEN ApplyReplacements(copied[f], instructions.replacements, 1)
          ELSE copied[f]]

RECURSIVE MkdirpAll(_, _)
MkdirpAll(instructions, i) ==
  IF i > Len(instructions) THEN {}
  ELSE Mkdirp(dirname(instructions[i].dst)) \cup MkdirpAll(instructions, i + 1)

\* copyDependencies() as a stage of build(), up to Promise.all.
CopyDependencies(p) ==
  /\ running = p
  /\ pc[p] = "copyDependencies"
  /\ started' = [started EXCEPT ![p] = Append(@, "copyDependencies")]
  /\ IF ~options.dependenciesSet
       THEN /\ StageSettled(p, "copyDependencies", "rejected", "done")
            /\ reason' = [reason EXCEPT ![p] =
                 Rejection("string", <<"Could not copy dependencies! The dependencies property has not been set!">>)]
            /\ UNCHANGED <<dirs, pendingNcp>>
       ELSE /\ UNCHANGED reason
            /\ dirs' = dirs \cup MkdirpAll(options.dependencies, 1)
            /\ pendingNcp' = [pendingNcp EXCEPT ![p] = 1..Len(options.dependencies)]
            /\ IF PromiseAll(1..Len(options.dependencies))
                 THEN StageSettled(p, "copyDependencies", "fulfilled", "done")
                 ELSE /\ pc' = [pc EXCEPT ![p] = "copy"]
                      /\ running' = 0
                      /\ promise' = [promise EXCEPT ![p].copyDependencies = "pending"]
  /\ UNCHANGED << deployVars, firstOutput, returned, options, layouts, order, metadata, files, call, templates, stack,
                  compiled, pendingRimraf, watching >>

\* The callback of one ncp without error; the last one of a copy stage that
\* has not failed fulfils build().
NcpDone(p, i) ==
  /\ running = 0
  /\ i \in pendingNcp[p]
  /\ files' = NcpThen(files, options.dependencies[i])
  /\ dirs' = dirs \cup Mkdirp(options.dependencies[i].dst)
  /\ pendingNcp' = [pendingNcp EXCEPT ![p] = @ \ {i}]
  /\ IF pc[p] = "copy" /\ PromiseAll(pendingNcp[p] \ {i})
       THEN StageSettled(p, "copyDependencies", "fulfilled", "done")
       ELSE UNCHANGED <<pc, running, promise>>
  /\ UNCHANGED << deployVars, firstOutput, returned, reason, options, layouts, order, metadata, call, started, templates, stack,
                  compiled, pendingRimraf, watching >>

\* The callback of one ncp with an error: Promise.all rejects at once.
NcpFail(p, i) ==
  /\ running = 0
  /\ i \in pendingNcp[p]
  /\ pendingNcp' = [pendingNcp EXCEPT ![p] = @ \ {i}]
  /\ IF pc[p] = "copy"
       THEN /\ StageSettled(p, "copyDependencies", "rejected", "done")
            /\ reason' = [reason EXCEPT ![p] = Rejection("Error", <<"ncp">>)]
       ELSE UNCHANGED <<pc, running, promise, reason>>
  /\ UNCHANGED << deployVars, firstOutput, returned, options, layouts, order, metadata, files, dirs, call, started,
                  templates, stack, compiled, pendingRimraf, watching >>

\* ------------------------------------------------------------ build
BuildOptions(sassChoices, dependencyChoices, ignoreChoices) ==
  { OptionsOf(TRUE, <<"src">>, EmptyObject, {}, s, FALSE, dset, Dependencies, ignore, FALSE) :
      s \in sassChoices, dset \in dependencyChoices, ignore \in ignoreChoices }

\* What an earlier build left in the build directories.
StaleFiles ==
  [ f \in { HtmlBuildDirectory \o <<SEP, "stale", DOT, "html">>,
            SassBuildDirectory \o <<SEP, "stale", DOT, "css">>,
            Dependencies[1].dst \o <<SEP, "stale", DOT, "js">>,
            Dependencies[2].dst \o <<SEP, "stale", DOT, "png">> } |-> <<"stale">> ]

\* One call of build() on an instance whose build directories hold the
\* output of an earlier build.
InitBuild ==
  InitWith(BuildOptions(BOOLEAN, BOOLEAN, {{}, {HtmlBuildDirectory}}),
           {NoMetadata}, {{<<>>}, {<<"a">>}, {<<>>, <<"a">>}}, {<<"D", "C", "L">>},
           StaleFiles)

CompileHtmlSteps(p) ==
  \/ CompileHtmlBegin(p)
  \/ RegisterTemplate(p)
  \/ SelectTemplate(p)
  \/ CompileFile(p)
  \/ RecurseInto(p)
  \/ ReturnFrom(p)

BuildSteps(p) ==
  \/ \E directory \in pendingRimraf[p] : RimrafDone(p, directory)
  \/ \E directory \in pendingRimraf[p] : RimrafFail(p, directory)
  \/ CompileHtmlSteps(p)
  \/ CompileSass(p)
  \/ CopyDependencies(p)
  \/ \E i \in pendingNcp[p] : NcpDone(p, i)
  \/ \E i \in pendingNcp[p] : NcpFail(p, i)

NextBuild ==
  \/ CallBuild
  \/ \E p \in Passes : BuildSteps(p)

SpecBuild == InitBuild /\ [][NextBuild]_vars

\* ------------------------------------------------------------ clean on its own
CleanOptions ==
  { OptionsOf(h, <<"src">>, EmptyObject, {}, s, FALSE, dset, Dependencies, ignore, FALSE) :
      h \in BOOLEAN, s \in BOOLEAN, dset \in BOOLEAN,
      ignore \in { {}, {HtmlBuildDirectory}, {SassBuildDirectory},
                   {Dependencies[1].dst, Dependencies[2].dst} } }

\* One call of clean() on an instance whose build directories hold the
\* output of an earlier build.
InitClean ==
  InitWith(CleanOptions, {NoMetadata}, {{<<>>}}, {<<"D", "C", "L">>}, StaleFiles)

NextClean ==
  \/ CallClean
  \/ \E p \in Passes :
       \/ \E directory \in pendingRimraf[p] : RimrafDone(p, directory)
       \/ \E directory \in pendingRimraf[p] : RimrafFail(p, directory)

SpecClean == InitClean /\ [][NextClean]_vars

\* ------------------------------------------------------------ develop
\* develop(): without the server or the html section a rejected promise is
\* returned and nothing is started; otherwise the initial build() is.
CallDevelop ==
  /\ running = 0
  /\ pc[1] = "idle"
  /\ IF ~options.server \/ ~options.html
       THEN /\ call' = [call EXCEPT ![1] = "develop"]
            /\ pc' = [pc EXCEPT ![1] = "failed"]
            /\ returned' = [returned EXCEPT ![1] = "promise"]
            /\ reason' = [reason EXCEPT ![1] =
                 Rejection("string", <<"Could not serve! The develop or html property has not been set!">>)]
            /\ UNCHANGED <<started, pendingRimraf, running, promise>>
       ELSE /\ BuildStarts(1, "develop")
            /\ UNCHANGED reason
  /\ UNCHANGED << deployVars, firstOutput, options, layouts, order, metadata, files, dirs, templates, stack,
                  compiled, pendingNcp, watching >>

\* Mutant of DevelopReady: watch(...) and liveServer.start are called next to
\* build(), not in its .then callback.
DevelopReadyUnawaited ==
  /\ running = 0
  /\ call[1] = "develop"
  /\ promise[1].build # "none"
  /\ ~watching
  /\ watching' = TRUE
  /\ UNCHANGED << deployVars, firstOutput, returned, reason, options, layouts, order, metadata, files, dirs, pc, call, started,
                  running, templates, stack, compiled, promise, pendingRimraf,
                  pendingNcp >>

\* The .then callback of the initial build(): watch(...) and liveServer.start.
DevelopReady ==
  /\ running = 0
  /\ call[1] = "develop"
  /\ promise[1].build = "fulfilled"
  /\ ~watching
  /\ watching' = TRUE
  /\ UNCHANGED << deployVars, firstOutput, returned, reason, options, layouts, order, metadata, files, dirs, pc, call, started,
                  running, templates, stack, compiled, promise, pendingRimraf,
                  pendingNcp >>

\* The directories in which the developer adds or removes a layout file.
ChangedDirs == { d \in Dirs : Len(d) <= 1 }

\* A change in a watched directory (the template.html.dot of directory d is
\* added or removed) and the watcher's callback for it: this.build().
WatchChange(d) ==
  /\ running = 0
  /\ watching
  /\ \E p \in Passes :
       /\ pc[p] = "idle"
       /\ \A q \in Passes : q < p => pc[q] # "idle"
       /\ BuildStarts(p, "watch")
  /\ layouts' = IF d \in layouts THEN layouts \ {d} ELSE layouts \cup {d}
  /\ UNCHANGED << deployVars, firstOutput, reason, options, order, metadata, files, dirs, templates, stack, compiled,
                  pendingNcp, watching >>

DevelopOptions(serverChoices) ==
  { OptionsOf(TRUE, <<"src">>, EmptyObject, {}, TRUE, FALSE, TRUE,
              <<Dependencies[1]>>, {SassBuildDirectory, Dependencies[1].dst}, srv) :
      srv \in serverChoices }

\* One call of develop() on a fresh build directory; the nested build
\* directories are listed in cleanIgnoreDirectories, so that clean() deletes
\* the one directory that holds them all.
InitDevelop ==
  InitWith(DevelopOptions(BOOLEAN), {NoMetadata}, {{<<>>}, {<<>>, <<"a">>}},
           {<<"D", "C", "L">>}, EmptyObject)

NextDevelop ==
  \/ CallDevelop
  \/ DevelopReady
  \/ \E d \in ChangedDirs : WatchChange(d)
  \/ \E p \in Passes : BuildSteps(p)

SpecDevelop == InitDevelop /\ [][NextDevelop]_vars

\* ------------------------------------------------------------ the stages on their own
\* A caller invokes compileSass() on the instance.
CallCompileSass ==
  /\ running = 0
  /\ pc[1] = "idle"
  /\ pc' = [pc EXCEPT ![1] = "compileSass"]
  /\ call' = [call EXCEPT ![1] = "compileSass"]
  /\ running' = 1
  /\ returned' = [returned EXCEPT ![1] = "promise"]
  /\ UNCHANGED << deployVars, firstOutput, reason, options, layouts, order, metadata,
                  files, dirs, started, templates, stack, compiled, promise,
                  pendingRimraf, pendingNcp, watching >>

\* A caller invokes copyDependencies() on the instance.
CallCopyDependencies ==
  /\ running = 0
  /\ pc[1] = "idle"
  /\ pc' = [pc EXCEPT ![1] = "copyDependencies"]
  /\ call' = [call EXCEPT ![1] = "copyDependencies"]
  /\ running' = 1
  /\ returned' = [returned EXCEPT ![1] = "promise"]
  /\ UNCHANGED << deployVars, firstOutput, reason, options, layouts, order, metadata,
                  files, dirs, started, templates, stack, compiled, promise,
                  pendingRimraf, pendingNcp, watching >>

\* The forms in which sass.sourceDirectory may be configured.
SassSourceForms ==
  { <<"scss">>, <<DOT, SEP, "scss">>, <<"scss", SEP>>, <<DOT>>, <<DOT, SEP>>, <<"sass">> }

\* Lists of copy instructions whose destinations are apart, nested and equal.
DependencyLists ==
  { Dependencies,
    << Dependencies[1],
       [ src |-> <<"images">>, dst |-> Dependencies[1].dst \o <<SEP, "img">>,
         replacements |-> <<>> ] >>,
    << Dependencies[1],
       [ src |-> <<"images">>, dst |-> Dependencies[1].dst, replacements |-> <<>> ] >>,
    << Dependencies[1] >>,
    <<>> }

StageOptions ==
  { [ OptionsOf(TRUE, <<"src">>, EmptyObject, {}, s, m, TRUE, deps, {}, FALSE)
        EXCEPT !.sassSourceDirectory = f ] :
      s \in BOOLEAN, m \in BOOLEAN, deps \in DependencyLists, f \in SassSourceForms }

\* One call of compileSass() or of copyDependencies() on a fresh build directory.
InitStages ==
  InitWith(StageOptions, {NoMetadata}, {{<<>>}}, {<<"D", "C", "L">>}, EmptyObject)

NextStages ==
  \/ CallCompileSass
  \/ CallCopyDependencies
  \/ \E p \in Passes :
       \/ CompileSass(p)
       \/ CopyDependencies(p)
       \/ \E i \in pendingNcp[p] : NcpDone(p, i)
       \/ \E i \in pendingNcp[p] : NcpFail(p, i)

SpecStages == InitStages /\ [][NextStages]_vars

\* ------------------------------------------------------------ compileHtml, twice
\* A caller invokes compileHtml() a second time on the instance, after the
\* first call has ended and the html build directory has been removed.
CallCompileHtmlAgain ==
  /\ running = 0
  /\ call[1] = "compileHtml"
  /\ pc[1] \in {"done", "failed"}
  /\ pc[2] = "idle"
  /\ firstOutput' = files
  /\ files' = Rimraf(files, options.buildDirectory)
  /\ dirs' = { d \in dirs : ~IsUnder(d, options.buildDirectory) }
  /\ pc' = [pc EXCEPT ![2] = "compileHtml"]
  /\ call' = [call EXCEPT ![2] = "compileHtml"]
  /\ running' = 2
  /\ returned' = [returned EXCEPT ![2] = "promise"]
  /\ UNCHANGED << deployVars, reason, options, layouts, order, metadata, started,
                  templates, stack, compiled, promise, pendingRimraf, pendingNcp,
                  watching >>

NextTwice ==
  \/ CallCompileHtml
  \/ CallCompileHtmlAgain
  \/ \E p \in Passes : CompileHtmlSteps(p)

\* Two calls of compileHtml() on the same source tree and configuration.
SpecTwice == Init /\ [][NextTwice]_vars

\* ------------------------------------------------------------ deploy
\* The options deploy() requires.
AwsRequired == {"awsAccessKeyId", "awsSecretAccessKey", "awsRegion", "awsS3Bucket"}

\* The aws options that are set to a non-empty string.
AwsChoices ==
  { AwsRequired, AwsRequired \cup {"awsCloudFrontDistributionId"},
    AwsRequired \ {"awsS3Bucket"}, {"awsCloudFrontDistributionId"} }

\* deploy(): without one of the four required options a rejected promise is
\* returned and nothing is started; otherwise build() is called and its
\* promise chain is not returned.
CallDeploy ==
  /\ running = 0
  /\ pc[1] = "idle"
  /\ IF ~(AwsRequired \subseteq options.aws)
       THEN /\ call' = [call EXCEPT ![1] = "deploy"]
            /\ pc' = [pc EXCEPT ![1] = "failed"]
            /\ returned' = [returned EXCEPT ![1] = "promise"]
            /\ reason' = [reason EXCEPT ![1] =
                 Rejection("string", <<"Could not deploy! The awsAccessKeyId, awsSecretAccessKey, awsRegion or awsS3Bucket has not been set!">>)]
            /\ UNCHANGED <<started, pendingRimraf, running, promise>>
       ELSE /\ BuildStarts(1, "deploy")
            /\ UNCHANGED reason
  /\ UNCHANGED << deployVars, firstOutput, options, layouts, order, metadata, files,
                  dirs, templates, stack, compiled, pendingNcp, watching >>

\* The .then callback of build() in deploy(): the promise is created and
\* uploadDir is called.
DeployUpload ==
  /\ running = 0
  /\ call[1] = "deploy"
  /\ upload = "none"
  /\ Then(promise[1].build, "upload") = "upload"
  /\ upload' = "started"
  /\ deployPromise' = "pending"
  /\ UNCHANGED << invalidation, firstOutput, returned, reason, options, layouts, order,
                  metadata, files, dirs, pc, call, started, running, templates, stack,
                  compiled, promise, pendingRimraf, pendingNcp, watching >>

\* Mutant of InvalidationWanted: the invalidation is created in every case.
InvalidationAlways(o) == TRUE

\* s3Uploader.on('end'): `if (!this.awsCloudFrontDistributionId) return resolve()`.
InvalidationWanted(o) == "awsCloudFrontDistributionId" \in o.aws

\* InvalidationBatch.Paths.Items
InvalidationPaths == << <<SEP, "*">> >>

\* s3Uploader emits 'end'.
UploadEnd ==
  /\ running = 0
  /\ upload = "started"
  /\ upload' = "ended"
  /\ IF InvalidationWanted(options)
       THEN /\ invalidation' = [state |-> "requested", paths |-> InvalidationPaths]
            /\ UNCHANGED deployPromise
       ELSE /\ deployPromise' = Settle(deployPromise, "fulfilled")
            /\ UNCHANGED invalidation
  /\ UNCHANGED << firstOutput, returned, reason, options, layouts, order,
                  metadata, files, dirs, pc, call, started, running, templates, stack,
                  compiled, promise, pendingRimraf, pendingNcp, watching >>

\* s3Uploader emits 'error'.
UploadError ==
  /\ running = 0
  /\ upload = "started"
  /\ upload' = "error"
  /\ deployPromise' = Settle(deployPromise, "rejected")
  /\ reason' = [reason EXCEPT ![1] = Rejection("Error", <<"s3">>)]
  /\ UNCHANGED << invalidation, firstOutput, returned, options, layouts, order,
                  metadata, files, dirs, pc, call, started, running, templates, stack,
                  compiled, promise, pendingRimraf, pendingNcp, watching >>

\* The promise of createInvalidation fulfils: resolve().
InvalidationDone ==
  /\ running = 0
  /\ invalidation.state = "requested"
  /\ invalidation' = [invalidation EXCEPT !.state = "done"]
  /\ deployPromise' = Settle(deployPromise, "fulfilled")
  /\ UNCHANGED << upload, firstOutput, returned, reason, options, layouts, order,
                  metadata, files, dirs, pc, call, started, running, templates, stack,
                  compiled, promise, pendingRimraf, pendingNcp, watching >>

\* The promise of createInvalidation rejects: .catch(reject).
InvalidationFail ==
  /\ running = 0
  /\ invalidation.state = "requested"
  /\ invalidation' = [invalidation EXCEPT !.state = "failed"]
  /\ deployPromise' = Settle(deployPromise, "rejected")
  /\ reason' = [reason EXCEPT ![1] = Rejection("Error", <<"cloudfront">>)]
  /\ UNCHANGED << upload, firstOutput, returned, options, layouts, order,
                  metadata, files, dirs, pc, call, started, running, templates, stack,
                  compiled, promise, pendingRimraf, pendingNcp, watching >>

DeployOptions ==
  { [ OptionsOf(h, <<"src">>, EmptyObject, {}, s, FALSE, dset, Dependencies, {}, FALSE)
        EXCEPT !.aws = a ] :
      h \in BOOLEAN, s \in BOOLEAN, dset \in BOOLEAN, a \in AwsChoices }

\* One call of deploy() or of build() on an instance whose build directories
\* hold the output of an earlier build.
InitDeploy ==
  InitWith(DeployOptions, {NoMetadata}, {{<<>>}}, {<<"D", "C", "L">>}, StaleFiles)

NextDeploy ==
  \/ CallDeploy
  \/ CallBuild
  \/ DeployUpload
  \/ UploadEnd
  \/ UploadError
  \/ InvalidationDone
  \/ InvalidationFail
  \/ \E p \in Passes : BuildSteps(p)

SpecDeploy == InitDeploy /\ [][NextDeploy]_vars

\* ------------------------------------------------------------ claims C1..C6
\* The nearest directory that is d or an ancestor of d and holds a layout.
HasLayoutAbove(d) == \E a \in layouts : IsPrefix(a, d)

NearestLayoutDir(d) ==
  CHOOSE a \in layouts :
    /\ IsPrefix(a, d)
    /\ \A b \in layouts : IsPrefix(b, d) => Len(b) <= Len(a)

Finished(p) == pc[p] \in {"done", "failed"}

\* The path r of the content file of directory d below the roots, and B/r.
RECURSIVE RelativeDir(_)
RelativeDir(d) == IF d = <<>> THEN <<>> ELSE RelativeDir(pop(d)) \o <<SEP, d[Len(d)]>>

ExpectedWritePath(d) == HtmlBuildDirectory \o RelativeDir(d) \o <<SEP>> \o IndexName

PageOf(p, d) == { i \in 1..Len(compiled[p]) : compiled[p][i].dir = d }

\* C1: every page compileHtml composes is wrapped by the layout of the
\* nearest directory that is the content file's own or an ancestor of it, and
\* in a tree whose only layout is at the root every content file is wrapped
\* by the root layout.
C1_NearestLayoutWraps ==
  \A p \in Passes :
    /\ \A i \in 1..Len(compiled[p]) :
         /\ HasLayoutAbove(compiled[p][i].dir)
         /\ compiled[p][i].layout = LayoutSource(NearestLayoutDir(compiled[p][i].dir))
    /\ (Finished(p) /\ call[p] = "compileHtml" /\ options.html
          /\ layouts = {<<>>} /\ \A d \in Dirs : metadata[d] # "invalid")
         => \A d \in Dirs :
              \E i \in PageOf(p, d) : compiled[p][i].layout = LayoutSource(<<>>)

\* C2: while recurse works on a directory (selects its layout, compiles its
\* files, descends), and for every page already composed, the layout of
\* every directory D on the path that contains a template.html.dot is in the
\* registry, in whatever order the children are listed.
C2_LayoutRegisteredBeforeCompile ==
  \A p \in Passes :
    (running = p /\ pc[p] = "traverse") =>
      /\ \A k \in 1..Len(stack) :
           stack[k].phase \in {"select", "children"} =>
             \A D \in layouts :
               IsPrefix(D, stack[k].dir) => DirectoryPath(D) \in DOMAIN templates[p]
      /\ \A i \in 1..Len(compiled[p]) :
           \A D \in layouts :
             IsPrefix(D, compiled[p][i].dir) => DirectoryPath(D) \in DOMAIN templates[p]

\* C2 witness: a page of a directory below a layout directory has been
\* composed although the layout file is listed after content and subdirectories.
C2_Witness ==
  /\ order = <<"C", "D", "L">>
  /\ <<"a">> \in layouts
  /\ pc[1] = "traverse"
  /\ PageOf(1, <<"a", "b">>) # {}

\* C3: when a content file has no layout in its directory or above, the
\* promise of compileHtml ends rejected, never fulfilled, and no page is
\* composed or written for that content file.
C3_MissingLayoutRejects ==
  \A p \in Passes :
    (call[p] = "compileHtml" /\ options.html) =>
      \A d \in Dirs :
        ~HasLayoutAbove(d) =>
          /\ PageOf(p, d) = {}
          /\ ExpectedWritePath(d) \notin DOMAIN files
          /\ WritePath(FileNode(options.sourceDirectory, d, IndexName)) \notin DOMAIN files
          /\ promise[p].compileHtml # "fulfilled"
          /\ Finished(p) => promise[p].compileHtml = "rejected"

\* C3 witness: a finished call on a tree where a subdirectory has a layout and
\* wrote its page, and the root content file has none.
C3_Witness ==
  /\ Finished(1)
  /\ options.html
  /\ <<>> \notin layouts
  /\ compiled[1] # <<>>
  /\ promise[1].compileHtml = "rejected"

\* C4: without a layout in the source root itself compileHtml composes no
\* page at all and rejects, whatever layouts the subdirectories have.
C4_RootLayoutRequired ==
  \A p \in Passes :
    (call[p] = "compileHtml" /\ options.html /\ <<>> \notin layouts) =>
      /\ compiled[p] = <<>>
      /\ DOMAIN files = {}
      /\ Finished(p) => promise[p].compileHtml = "rejected"

\* C5: the content field of the context given to the layout is the rendered
\* output of the content file, for every templateDependencies object.
C5_ContentHasHighestPrecedence ==
  \A p \in Passes :
    \A i \in 1..Len(compiled[p]) :
      compiled[p][i].context["content"] = compiled[p][i].content

\* C6: the page of the content file at S/r is written at B/r and nowhere
\* else, for every form of the configured source path.
C6_WrittenAtMirroredPath ==
  /\ \A p \in Passes :
       \A i \in 1..Len(compiled[p]) :
         compiled[p][i].writePath = ExpectedWritePath(compiled[p][i].dir)
  /\ \A f \in DOMAIN files : \E d \in Dirs : f = ExpectedWritePath(d)

\* ------------------------------------------------------------ claims C7..C10
StageOrder == <<"clean", "compileHtml", "compileSass", "copyDependencies">>

HasStarted(p, n) == Len(started[p]) >= n

\* C7: build() starts its stages in the order clean, compileHtml,
\* compileSass, copyDependencies, each one only when the one before is
\* complete: every rimraf has called back and the stale output is gone before
\* compileHtml, every page is written before compileSass, the stylesheets
\* before copyDependencies, and every copy and substitution is done before
\* build() fulfils.
C7_StagesRunInOrder ==
  \A p \in Passes :
    InBuild(p) =>
      /\ Len(started[p]) <= Len(StageOrder)
      /\ started[p] = SubSeq(StageOrder, 1, Len(started[p]))
      /\ HasStarted(p, 2) =>
           /\ promise[p].clean = "fulfilled"
           /\ pendingRimraf[p] = {}
           /\ \A f \in DOMAIN StaleFiles \cap DOMAIN files :
                \A t \in CleanTargets : ~IsUnder(f, t)
      /\ HasStarted(p, 3) =>
           /\ promise[p].compileHtml = "fulfilled"
           /\ \A d \in Dirs : ExpectedWritePath(d) \in DOMAIN files
      /\ HasStarted(p, 4) =>
           /\ promise[p].compileSass = "fulfilled"
           /\ \A i \in 1..Len(SassFiles) :
                IsSassEntry(SassFiles[i]) => SassWritePath(SassFiles[i]) \in DOMAIN files
      /\ promise[p].build = "fulfilled" =>
           /\ pendingNcp[p] = {}
           /\ \A i \in 1..Len(options.dependencies) :
                LET lib == pathJoin(options.dependencies[i].dst, LibName)
                IN /\ lib \in DOMAIN files
                   /\ \A r \in Range(options.dependencies[i].replacements) :
                        r[1] \notin Range(files[lib])

\* C7 witness: a build() that ran all four stages over stale output and fulfilled.
C7_Witness ==
  /\ promise[1].build = "fulfilled"
  /\ started[1] = StageOrder
  /\ options.cleanIgnoreDirectories = {}
  /\ pathJoin(Dependencies[1].dst, LibName) \in DOMAIN files

\* C8: once a stage of build() has failed, it is the last stage that was
\* started, build() is rejected, and the pages and stylesheets written by
\* the stages before it are still on disk.
C8_FailureHaltsBuild ==
  \A p \in Passes :
    InBuild(p) =>
      /\ \A st \in Stages :
           promise[p][st] = "rejected" =>
             /\ started[p] # <<>>
             /\ started[p][Len(started[p])] = st
             /\ pc[p] = "failed"
             /\ promise[p].build = "rejected"
      /\ (pc[p] = "failed" /\ promise[p].compileHtml = "fulfilled") =>
           \A i \in 1..Len(compiled[p]) :
             /\ compiled[p][i].writePath \in DOMAIN files
             /\ files[compiled[p][i].writePath] = compiled[p][i].output
      /\ (pc[p] = "failed" /\ promise[p].compileSass = "fulfilled") =>
           \A i \in 1..Len(SassFiles) :
             IsSassEntry(SassFiles[i]) => SassWritePath(SassFiles[i]) \in DOMAIN files

\* C8 witness: compileSass failed after compileHtml had written its pages.
C8_Witness ==
  /\ pc[1] = "failed"
  /\ promise[1].compileSass = "rejected"
  /\ promise[1].build = "rejected"
  /\ compiled[1] # <<>>

\* C9: in develop mode at most one build pass is in progress at any time.
C9_OneBuildAtATime ==
  Cardinality({ p \in Passes : promise[p].build = "pending" }) <= 1

\* C10: the registry of a compileHtml call is empty when its traversal
\* starts, and during the traversal it holds nothing but the layouts this
\* traversal has read from the source tree as it is now, also while other
\* passes started on the instance are still in progress.
C10_RegistryOwnedByPass ==
  \A p \in Passes :
    (running = p /\ pc[p] = "traverse") =>
      /\ (Len(stack) = 1 /\ stack[1].phase = "register") => DOMAIN templates[p] = {}
      /\ \A k \in DOMAIN templates[p] :
           \E d \in layouts :
             /\ k = DirectoryPath(d)
             /\ templates[p][k] = LayoutSource(d)

\* C10 witness: the third pass has finished its traversal while the second
\* pass is still copying, and the second pass had registered a layout that
\* the third one has not.
C10_Witness ==
  /\ pc[2] = "copy"
  /\ running = 3
  /\ pc[3] = "traverse"
  /\ Len(stack) = 1
  /\ stack[1].phase = "children"
  /\ stack[1].idx > Len(Children(<<>>))
  /\ DOMAIN templates[3] # {}
  /\ DOMAIN templates[2] \ DOMAIN templates[3] # {}

\* ------------------------------------------------------------ claims C11..C13
PublicOperations ==
  {"clean", "compileHtml", "compileSass", "copyDependencies", "build", "deploy", "develop"}

\* C11: every public operation hands a promise to its caller, also when its
\* configuration is complete, so that a failure of the build, of the upload
\* or of the invalidation inside deploy() has a promise of the caller to reject.
C11_EveryOperationReturnsPromise ==
  \A p \in Passes :
    call[p] \in PublicOperations =>
      returned[p] = "promise"

\* C12: in deploy() the upload starts only after build() has fulfilled and
\* never after a failed build; the invalidation of the path /* is requested
\* if and only if awsCloudFrontDistributionId is set, and only after the
\* upload has ended without an error.
C12_UploadAfterBuildThenInvalidate ==
  /\ upload # "none" => (call[1] = "deploy" /\ promise[1].build = "fulfilled")
  /\ promise[1].build # "fulfilled" => (upload = "none" /\ deployPromise = "none")
  /\ invalidation.state # "none" =>
       /\ upload = "ended"
       /\ "awsCloudFrontDistributionId" \in options.aws
       /\ invalidation.paths = << <<"/", "*">> >>
  /\ (upload = "ended" /\ "awsCloudFrontDistributionId" \in options.aws) =>
       invalidation.state # "none"
  /\ upload = "error" => invalidation.state = "none"

\* C12 witness: a deploy() whose build fulfilled, whose upload ended and whose
\* invalidation was created.
C12_Witness ==
  /\ call[1] = "deploy"
  /\ upload = "ended"
  /\ invalidation.state = "done"
  /\ deployPromise = "fulfilled"

\* C13: when a section the requested operation needs is missing (build():
\* html, sass or dependencies; deploy(): one of the four aws options) the
\* operation fails before any work begins: nothing in the build directories
\* is deleted or written, and nothing is uploaded.
C13_MissingSectionFailsBeforeWork ==
  /\ (call[1] = "build"
        /\ (~options.html \/ ~options.sass \/ ~options.dependenciesSet)) =>
       /\ files = StaleFiles
       /\ pendingRimraf[1] = {}
       /\ upload = "none"
  /\ (call[1] = "deploy" /\ ~(AwsRequired \subseteq options.aws)) =>
       /\ files = StaleFiles
       /\ pendingRimraf[1] = {}
       /\ upload = "none"
       /\ pc[1] = "failed"

\* ------------------------------------------------------------ claims C14..C17
\* C14: every key of html.templateDependencies is in the context of every
\* template invocation with its configured value: in the context of the
\* layout, of the content file, and of every component loaded through
\* getComponent at any depth of nesting.
C14_DependenciesInEveryContext ==
  \A p \in Passes :
    \A i \in 1..Len(compiled[p]) :
      \A k \in DOMAIN options.templateDependencies :
        /\ k \in DOMAIN compiled[p][i].context
        /\ compiled[p][i].context[k] = options.templateDependencies[k]
        /\ k \in DOMAIN compiled[p][i].contentContext
        /\ compiled[p][i].contentContext[k] = options.templateDependencies[k]
        /\ \A c \in compiled[p][i].components :
             /\ k \in DOMAIN c.context
             /\ c.context[k] = options.templateDependencies[k]

\* What the components c3, c2 and c1 render to.
C3Text == <<"<c3>", "undefined", "</c3>">>
C2Text == <<"<c2>", "c1">> \o C3Text \o <<"</c2>">>
C1Text == <<"<c1>", "undefined">> \o C2Text \o <<"</c1>">>

ComponentText(path) ==
  IF path = "c1" THEN C1Text ELSE IF path = "c2" THEN C2Text ELSE C3Text

\* C17: every context getComponent builds holds the loader under the key
\* getComponent, also the contexts of nested calls; a page whose content file
\* loads c1, which loads c2, which loads c3, is composed, and the output of
\* each level is the text of the outer template with the output of the inner
\* component at the place of the call.
C17_LoaderInEveryComponentContext ==
  \A p \in Passes :
    /\ \A i \in 1..Len(compiled[p]) :
         LET page == compiled[p][i]
             title == IF "title" \in DOMAIN options.templateDependencies
                        THEN options.templateDependencies["title"] ELSE <<"undefined">>
         IN /\ \A c \in page.components :
                 /\ "getComponent" \in DOMAIN c.context
                 /\ c.context["getComponent"] = GetComponentValue
                 /\ c.output = ComponentText(c.path)
            /\ { <<c.path, c.depth>> : c \in page.components }
                 = { <<"c1", 1>>, <<"c2", 2>>, <<"c3", 3>> }
            /\ page.content
                 = <<"<page">> \o page.dir \o <<">">> \o title \o C1Text \o <<"</page>">>
    /\ (Finished(p) /\ call[p] = "compileHtml" /\ options.html
          /\ options.sourceDirectory = <<"src">> /\ <<>> \in layouts
          /\ \A d \in Dirs : metadata[d] # "invalid")
         => \A d \in Dirs : PageOf(p, d) # {}

\* C17 witness: the page of a subdirectory has been composed with a
\* component loaded at the third level of nesting.
C17_Witness ==
  \E i \in 1..Len(compiled[1]) :
    /\ compiled[1][i].dir = <<"a", "b">>
    /\ \E c \in compiled[1][i].components : c.depth = 3 /\ c.output = C3Text
    /\ compiled[1][i].writePath \in DOMAIN files

\* ------------------------------------------------------------ claims C15, C18
\* C15: for a directory without metadata.json the content template and the
\* layout receive an empty metadata record and the compilation goes on; when
\* a metadata.json that is not valid JSON is parsed, compileHtml rejects with
\* an error whose message names the directory.
C15_MetadataAbsentOrMalformed ==
  \A p \in Passes :
    /\ \A i \in 1..Len(compiled[p]) :
         metadata[compiled[p][i].dir] = "absent" =>
           /\ compiled[p][i].contentContext["metadata"] = <<"{}">>
           /\ compiled[p][i].context["metadata"] = <<"{}">>
    /\ reason[p].name = "SyntaxError" =>
         /\ promise[p].compileHtml = "rejected"
         /\ \E d \in Dirs :
              /\ metadata[d] = "invalid"
              /\ IndexOf(reason[p].message, DirectoryPath(d), 1) # 0

\* The directories whose first loop of recurse has run in pass p.
Entered(p) ==
  { stack[k].dir : k \in { j \in 1..Len(stack) : running = p /\ stack[j].phase # "register" } }
    \cup { compiled[p][i].dir : i \in 1..Len(compiled[p]) }

\* C18: during a traversal, for every directory recurse has entered and
\* scanned for its layout, the registry has an entry under the directory's
\* path if and only if the directory itself contains a template.html.dot,
\* and the registry has no other key.
C18_RegistryEntryIffLayout ==
  \A p \in Passes :
    call[p] = "compileHtml" =>
      /\ \A d \in Entered(p) : DirectoryPath(d) \in DOMAIN templates[p] <=> d \in layouts
      /\ \A k \in DOMAIN templates[p] :
           \E d \in layouts :
             /\ k = DirectoryPath(d)
             /\ d \in Entered(p) \/ Finished(p)

\* C18 witness: the traversal is in a subdirectory without a layout below a
\* directory with one, and the root has none.
C18_Witness ==
  /\ running = 1
  /\ pc[1] = "traverse"
  /\ Len(stack) = 3
  /\ stack[3].phase = "children"
  /\ layouts = {<<"a">>}
  /\ DOMAIN templates[1] = {DirectoryPath(<<"a">>)}

C16_NoPatternLeftUnderDestination ==
  \A p \in Passes :
    (call[p] = "copyDependencies" /\ promise[p].copyDependencies = "fulfilled") =>
      \A i \in 1..Len(options.dependencies) :
        \A r \in Range(options.dependencies[i].replacements) :
          \A f \in DOMAIN files :
            IsUnder(f, options.dependencies[i].dst) => r[1] \notin Range(files[f])

\* The relative paths of the sass source tree and the stylesheet of each.
SassRelativePaths ==
  << <<"main", DOT, "scss">>, <<"_", "util", DOT, "scss">>,
     <<"dark", SEP, "night", DOT, "scss">>, <<"theme", DOT, "sass">>,
     <<"notes", DOT, "txt">> >>

ExpectedCssPath(rel) ==
  SassBuildDirectory \o <<SEP>> \o SubSeq(rel, 1, Len(rel) - 1) \o <<"css">>

ExpectedCssPaths == { ExpectedCssPath(SassRelativePaths[i]) : i \in {1, 3, 4} }

\* The source maps written next to the stylesheets when includeSourceMap is set.
ExpectedMapPaths ==
  IF options.includeSourceMap THEN { f \o <<DOT, "map">> : f \in ExpectedCssPaths } ELSE {}

\* C20: compileSass writes no file for a .sass or .scss file whose name
\* begins with '_', and for every other .sass or .scss file at the relative
\* path r it writes exactly one stylesheet, at r under sass.buildDirectory
\* with the extension replaced by .css (and its source map when asked for).
C20_OneStylesheetPerEntry ==
  \A p \in Passes :
    call[p] = "compileSass" =>
      /\ DOMAIN files \subseteq ExpectedCssPaths \cup ExpectedMapPaths
      /\ promise[p].compileSass = "fulfilled" =>
           DOMAIN files = ExpectedCssPaths \cup ExpectedMapPaths

\* ------------------------------------------------------------ claim C21
\* A directory, or something below it, is on disk.
Exists(directory) ==
  \/ \E d \in dirs : IsUnder(d, directory)
  \/ \E f \in DOMAIN files : IsUnder(f, directory)

Quiescent ==
  /\ running = 0
  /\ \A p \in Passes :
       /\ pc[p] \in {"idle", "done", "failed"}
       /\ pendingRimraf[p] = {}
       /\ pendingNcp[p] = {}

\* The pass of the last change event.
LastPass == CHOOSE p \in Passes : pc[p] # "idle" /\ \A q \in Passes : q > p => pc[q] = "idle"

\* The page of directory d as composed from the sources as they are now.
LatestPage(d) ==
  LET templateDependencies == TemplateDependencies(d)
      contentOutput == Render(ContentSource(d), templateDependencies)
  IN Render(LayoutSource(NearestLayoutDir(d)),
            LayoutContext(contentOutput, templateDependencies))

\* The build directories hold the output of the sources as they are now.
OutputLatest ==
  /\ \A d \in Dirs :
       /\ ExpectedWritePath(d) \in DOMAIN files
       /\ files[ExpectedWritePath(d)] = LatestPage(d)
  /\ \A i \in 1..Len(SassFiles) :
       IsSassEntry(SassFiles[i]) => SassWritePath(SassFiles[i]) \in DOMAIN files
  /\ \A i \in 1..Len(options.dependencies) :
       pathJoin(options.dependencies[i].dst, LibName) \in DOMAIN files

\* C22: in develop mode every change event starts a build pass that cleans
\* and then recompiles, so that once the pass of the last change event has
\* succeeded and nothing is in progress any more, the build directories hold
\* the output of the latest sources.
C22_LatestOutputAfterLastChange ==
  /\ \A p \in Passes :
       call[p] = "watch" => (started[p] # <<>> /\ started[p][1] = "clean")
  /\ (watching /\ Quiescent /\ call[LastPass] = "watch"
        /\ promise[LastPass].build = "fulfilled")
       => OutputLatest


\* C23: after compileHtml has succeeded, the build file of every .html
\* content file holds the page composed by its layout (the layout's output
\* with the rendered content in its content slot), whatever
\* html.copyFilesWithExtensions lists.
C23_BuildFileHoldsComposedPage ==
  \A p \in Passes :
    (call[p] = "compileHtml" /\ promise[p].compileHtml = "fulfilled") =>
      \A i \in 1..Len(compiled[p]) :
        /\ compiled[p][i].writePath \in DOMAIN files
        /\ files[compiled[p][i].writePath]
             = Render(compiled[p][i].layout,
                      LayoutContext(compiled[p][i].content, compiled[p][i].contentContext))


\* The directories of the content files in the order recurse meets them:
\* the content file, the layout file and the subdirectories of a directory
\* in their listing order, a subdirectory walked to its end before the next
\* child.
RECURSIVE ContentOrderFrom(_), ContentOrderBelow(_, _)
ContentOrderFrom(d) ==
  LET part(kind) == IF kind = "C" THEN <<d>>
                    ELSE IF kind = "D" THEN ContentOrderBelow(d, 1)
                    ELSE <<>>
  IN part(order[1]) \o part(order[2]) \o part(order[3])

ContentOrderBelow(d, i) ==
  IF i > Len(SubDirs(d)) THEN <<>>
  ELSE ContentOrderFrom(Append(d, SubDirs(d)[i])) \o ContentOrderBelow(d, i + 1)

ContentOrder == ContentOrderFrom(<<>>)

ContentWritePath(d) == WritePath(FileNode(options.sourceDirectory, d, IndexName))

\* C24: compileHtml composes the content files in traversal order and stops
\* at the first one whose compilation throws: the files written before it
\* are in the build directory, no file later in traversal order is written,
\* and the promise is rejected with that error and never fulfilled.
C24_AbortsAtFirstThrow ==
  \A p \in Passes :
    (call[p] = "compileHtml" /\ options.html) =>
      LET contentOrder == ContentOrder
      IN /\ Len(compiled[p]) <= Len(contentOrder)
         /\ \A i \in 1..Len(compiled[p]) : compiled[p][i].dir = contentOrder[i]
         /\ reason[p] # NoError =>
              /\ pc[p] = "failed"
              /\ promise[p].compileHtml = "rejected"
              /\ Len(compiled[p]) < Len(contentOrder)
              /\ \A i \in 1..Len(contentOrder) :
                   ContentWritePath(contentOrder[i]) \in DOMAIN files
                     <=> i <= Len(compiled[p])
         /\ promise[p].compileHtml = "rejected" => reason[p] # NoError

\* C24 witness: the call was rejected after two pages had been written, and
\* content files later in traversal order were left.
C24_Witness ==
  /\ call[1] = "compileHtml"
  /\ pc[1] = "failed"
  /\ promise[1].compileHtml = "rejected"
  /\ Len(compiled[1]) >= 2
  /\ Len(compiled[1]) + 1 < Len(ContentOrder)


\* The position of the last separator of a path, 0 when it has none.
RECURSIVE LastSeparator(_, _)
LastSeparator(key, i) ==
  IF i = 0 THEN 0 ELSE IF key[i] = SEP THEN i ELSE LastSeparator(key, i - 1)

\* A path without its last segment: what stands before its last separator.
WithoutLastSegment(key) ==
  LET i == LastSeparator(key, Len(key))
  IN IF i = 0 THEN <<>> ELSE SubSeq(key, 1, i - 1)

\* A path, then the path without its last segment, and so on down to the
\* last path that is not empty.
RECURSIVE Truncations(_)
Truncations(key) ==
  IF key = <<>> THEN <<>> ELSE <<key>> \o Truncations(WithoutLastSegment(key))

\* The first position of a chain of keys that the registry holds, and the
\* length of the chain when it holds none.
RECURSIVE FirstRegistered(_, _, _)
FirstRegistered(tpls, chain, i) ==
  IF i >= Len(chain) \/ chain[i] \in DOMAIN tpls THEN i
  ELSE FirstRegistered(tpls, chain, i + 1)

\* C25: for every directory of the source tree and every registry the pass
\* goes through, layout resolution ends after at most one lookup per segment
\* of the directory's path: it looks up the path itself, then the path with
\* one more trailing segment removed per step, and stops at the first key
\* that is registered, or when the key has become empty, with no layout.
C25_LayoutResolutionTerminates ==
  \A p \in { q \in Passes : call[q] # "none" } : \A d \in Dirs :
    LET key == DirectoryPath(d)
        chain == Truncations(key)
        n == FirstRegistered(templates[p], chain, 1)
        found == SelectParentTemplate(templates[p], key)
    IN /\ chain # <<>>
       /\ Len(chain) <= Len(split(key))
       /\ SelectionSteps(templates[p], key) = n
       /\ found = IF chain[n] \in DOMAIN templates[p]
                    THEN templates[p][chain[n]] ELSE NoTemplate
       /\ \A k \in 1..Len(stack) :
            (running = p /\ stack[k].dir = d /\ stack[k].phase = "children")
              => stack[k].parentTemplate = found

\* C25 witness: recurse works on a directory two levels down whose layout,
\* the one of the root, was found at the third lookup.
C25_Witness ==
  /\ running = 1
  /\ stack # <<>>
  /\ Top.phase = "children"
  /\ Top.dir = <<"a", "a">>
  /\ Top.parentTemplate = LayoutSource(<<>>)
  /\ SelectionSteps(templates[1], DirectoryPath(<<"a", "a">>)) = 3


\* The record of the metadata.json of directory d as a template prints it:
\* the text of the file, and {} when the directory has none.
OwnMetadata(d) ==
  IF metadata[d] = "absent" THEN <<"{}">>
  ELSE Raw(FileSource(FileNode(options.sourceDirectory, d, MetadataName)))

\* C26: the metadata in the context of a content file and in the context of
\* its resolved layout is the record of the metadata.json of the content
\* file's own directory, {} when that directory has none: never the record
\* of a directory above, and never the record of the directory of the layout.
C26_MetadataOfOwnDirectory ==
  \A p \in Passes : \A i \in 1..Len(compiled[p]) :
    LET page == compiled[p][i]
    IN /\ page.contentContext["metadata"] = OwnMetadata(page.dir)
       /\ page.context["metadata"] = OwnMetadata(page.dir)
       /\ page.output
            = Render(page.layout,
                     ObjectAssign([content |-> page.content,
                                   metadata |-> OwnMetadata(page.dir),
                                   getComponent |-> GetComponentValue],
                                  options.templateDependencies))

\* C26 witness: under a layout at the root only, the page of a directory
\* with a metadata.json and the page of its subdirectory, which has none,
\* have both been composed.
C26_Witness ==
  /\ layouts = {<<>>}
  /\ metadata[<<"a">>] = "valid"
  /\ metadata[<<"a", "a">>] = "absent"
  /\ \E i \in PageOf(1, <<"a">>) :
       /\ compiled[1][i].layout = LayoutSource(<<>>)
       /\ compiled[1][i].context["metadata"] = <<"{meta", "a", "}">>
  /\ \E i \in PageOf(1, <<"a", "a">>) :
       compiled[1][i].context["metadata"] = <<"{}">>


TemplateWritePath(d) == WritePath(FileNode(options.sourceDirectory, d, TemplateName))

MetadataWritePath(d) == WritePath(FileNode(options.sourceDirectory, d, MetadataName))

\* C27: compileHtml composes a page only for a file whose extension is
\* .html.  A template.html.dot or a metadata.json has a file in the build
\* directory only when its extension is listed in
\* html.copyFilesWithExtensions, and that file is the unchanged copy of the
\* source file, never a rendered page; when the call has succeeded, every
\* such file with a listed extension has been copied.
C27_PagesOnlyForHtmlFiles ==
  \A p \in Passes :
    (call[p] = "compileHtml" /\ options.html) =>
      /\ \A i \in 1..Len(compiled[p]) :
           /\ compiled[p][i].path
                = FileNode(options.sourceDirectory, compiled[p][i].dir, IndexName).path
           /\ extname(compiled[p][i].path) = HtmlExt
      /\ \A d \in Dirs :
           /\ TemplateWritePath(d) \in DOMAIN files =>
                /\ d \in layouts
                /\ DotExt \in options.copyFilesWithExtensions
                /\ files[TemplateWritePath(d)] = Raw(LayoutSource(d))
           /\ MetadataWritePath(d) \in DOMAIN files =>
                /\ metadata[d] # "absent"
                /\ JsonExt \in options.copyFilesWithExtensions
                /\ files[MetadataWritePath(d)]
                     = Raw(FileSource(FileNode(options.sourceDirectory, d, MetadataName)))
           /\ promise[p].compileHtml = "fulfilled" =>
                /\ (d \in layouts /\ DotExt \in options.copyFilesWithExtensions)
                     => TemplateWritePath(d) \in DOMAIN files
                /\ (metadata[d] # "absent" /\ JsonExt \in options.copyFilesWithExtensions)
                     => MetadataWritePath(d) \in DOMAIN files

\* C27 witness: a call with .dot and .json listed has succeeded and left the
\* copies of a layout file and of a metadata.json beside the pages.
C27_Witness ==
  /\ call[1] = "compileHtml"
  /\ promise[1].compileHtml = "fulfilled"
  /\ options.copyFilesWithExtensions = {DotExt, JsonExt}
  /\ TemplateWritePath(<<>>) \in DOMAIN files
  /\ MetadataWritePath(<<"a">>) \in DOMAIN files
  /\ ExpectedWritePath(<<"a">>) \in DOMAIN files


\* C28: develop() starts the file watcher and the live server only after
\* its initial build() has succeeded; when develop() is refused or the
\* initial build fails, they are never started and no rebuild is triggered.
C28_WatcherOnlyAfterInitialBuild ==
  /\ watching => (call[1] = "develop" /\ promise[1].build = "fulfilled")
  /\ \A p \in Passes :
       call[p] = "watch" => (p > 1 /\ watching /\ promise[1].build = "fulfilled")
  /\ (call[1] = "develop" /\ pc[1] = "failed") =>
       /\ ~watching
       /\ \A p \in Passes : p > 1 => (call[p] = "none" /\ pc[p] = "idle")

\* C28 witness: the initial build succeeded, the watcher was started and a
\* change has triggered a rebuild.
C28_Witness ==
  /\ call[1] = "develop"
  /\ promise[1].build = "fulfilled"
  /\ watching
  /\ call[2] = "watch"


\* C29: the context getComponent renders with has the loader under the key
\* getComponent, whatever the caller's object held under that key, and the
\* keys are written into the caller's object: after the call that object is
\* the context, it has the key getComponent, and its other keys are as the
\* caller set them.
C29_LoaderWrittenIntoCallerObject ==
  \A p \in Passes : \A i \in 1..Len(compiled[p]) :
    \A c \in compiled[p][i].components :
      /\ c.context["getComponent"] = GetComponentValue
      /\ c.objectAfter = c.context
      /\ DOMAIN c.objectAfter = DOMAIN c.object \cup {"getComponent"}
      /\ \A k \in DOMAIN c.object \ {"getComponent"} : c.objectAfter[k] = c.object[k]

\* C29 witness: a component was loaded with an object that had its own
\* getComponent key and another key, and has loaded a component itself.
C29_Witness ==
  \E i \in 1..Len(compiled[1]) : \E c, e \in compiled[1][i].components :
    /\ "getComponent" \in DOMAIN c.object
    /\ c.object["getComponent"] # GetComponentValue
    /\ DOMAIN c.object # {"getComponent"}
    /\ c.objectAfter["getComponent"] = GetComponentValue
    /\ e.depth = c.depth + 1

====
